---- MODULE Spec2Model ----
(***************************************************************************)
(* Weather fetching of my-bindicator.                                      *)
(*                                                                         *)
(*  - the Weather function component (src/components/weather.rs): its     *)
(*    four use_state cells and the fetch tasks it spawns on mount and on   *)
(*    manual retry, each running fetch_with_retry over fetch_weather_data  *)
(*    (src/weather/api.rs);                                                *)
(*  - the WeatherProvider context (src/context/weather.rs): the WeatherCtx *)
(*    reducer and the fetch tasks spawned on mount and by the hourly       *)
(*    interval, each running fetch_weather_with_retry.                     *)
(*                                                                         *)
(* The browser is single threaded: a task runs from one await to the next  *)
(* without interruption, so every action below is one such run.  Time is   *)
(* abstract: a timer that is armed may fire at any later step.             *)
(***************************************************************************)
EXTENDS Integers, Sequences, FiniteSets, TLC

----------------------------------------------------------------------------
(* Program constants *)

MAX_ATTEMPTS == 3

FETCH_TIMEOUT_SECS == 10

MAX_RETRIES == 3

RETRY_DELAY_MS == 2000

(* Bounds of the model *)

\* fetch tasks the Weather component spawns (the mount effect, then manual retries)
MaxInvocations == 2

\* distinct weather payloads the upstream API can answer with
MaxData == 2

\* fetch tasks the WeatherProvider spawns (the mount effect, then interval ticks)
MaxProviderInvocations == 2

\* words of a condition string
MaxWords == 2

\* periods of a short forecast feed
MaxPeriods == 3

\* periods of a week's forecast feed: any of the first MaxWeek of the week
MaxWeek == 14

\* hours of an hourly forecast feed
MaxHours == 25

\* times the Interval of the WeatherDisplay fires
MaxTicks == 2

\* the clock of the BinComponent runs over the hours 0..MaxClock
MaxClock == 335

\* get_alternate_bin is called up to MaxBinDays days before and after the
\* reference day
MaxBinDays == 16

----------------------------------------------------------------------------
(* Option and Result values *)

None == <<>>

Some(x) == <<x>>

Ok(v) == [ok |-> TRUE, val |-> v]

Err(e) == [ok |-> FALSE, val |-> e]

\* an error message: its text up to the interpolated number
ErrorMsg(kind, code) == [kind |-> kind, code |-> code]

RECURSIVE pow(_, _)
\* u32::pow
pow(b, n) == IF n = 0 THEN 1 ELSE b * pow(b, n - 1)

----------------------------------------------------------------------------
(* Inputs: what the network can answer *)

DataIds == 1..MaxData

\* HTTP statuses of a response; Response::ok() is status in 200..299
Statuses == {200, 404, 503}

\* bodies of the weather endpoint, by the shape parse_api_response looks at
PayloadShapes == {"invalid_json", "no_features", "no_properties",
                  "no_current_conditions", "valid"}

Payloads == [shape : PayloadShapes \ {"valid"}, id : {0}]
              \cup [shape : {"valid"}, id : DataIds]

\* bodies of the AQHI endpoint: aqhi = 0 stands for a body without a value
AqhiBodies == [json : {FALSE}, aqhi : {0}] \cup [json : {TRUE}, aqhi : {0, 3, 7}]

SendResults == [net_err : {TRUE}, status : {0}] \cup [net_err : {FALSE}, status : Statuses]

TextResults == [read_err : {TRUE}, body : {[shape |-> "invalid_json", id |-> 0]}]
                 \cup [read_err : {FALSE}, body : Payloads]

AqhiTextResults == [read_err : {TRUE}, body : {[json |-> FALSE, aqhi |-> 0]}]
                     \cup [read_err : {FALSE}, body : AqhiBodies]

----------------------------------------------------------------------------
(* src/weather/api.rs *)

\* gloo_net Response::ok
response_ok(status) == status >= 200 /\ status <= 299

\* the WeatherData a valid payload parses to; id stands for its parsed content
WeatherData(id) == [id |-> id, air_quality |-> None]

\* variant: a text without a features array parses to an empty WeatherData
parse_api_response_empty_on_no_features(body) ==
    IF body.shape = "invalid_json" THEN Err(ErrorMsg("JSON parse error", 0))
    ELSE IF body.shape = "no_features" THEN Ok(WeatherData(0))
    ELSE IF body.shape = "no_properties" THEN Err(ErrorMsg("No properties in feature", 0))
    ELSE IF body.shape = "no_current_conditions"
         THEN Err(ErrorMsg("No currentConditions in response", 0))
    ELSE Ok(WeatherData(body.id))

parse_api_response(body) ==
    IF body.shape = "invalid_json" THEN Err(ErrorMsg("JSON parse error", 0))
    ELSE IF body.shape = "no_features" THEN Err(ErrorMsg("No features array in response", 0))
    ELSE IF body.shape = "no_properties" THEN Err(ErrorMsg("No properties in feature", 0))
    ELSE IF body.shape = "no_current_conditions"
         THEN Err(ErrorMsg("No currentConditions in response", 0))
    ELSE Ok(WeatherData(body.id))

\* fetch_and_parse up to the first response: Some(result) is an early return
fetch_and_parse_send(r) ==
    IF r.net_err THEN Some(Err(ErrorMsg("Network error", 0)))
    ELSE IF ~response_ok(r.status) THEN Some(Err(ErrorMsg("HTTP", r.status)))
    ELSE None

\* fetch_and_parse from the body to the parsed weather_data
fetch_and_parse_text(t) ==
    IF t.read_err THEN Err(ErrorMsg("Failed to read response", 0))
    ELSE parse_api_response(t.body)

aqhi_category(index) ==
    IF index >= 1 /\ index <= 3 THEN "Low Risk"
    ELSE IF index >= 4 /\ index <= 6 THEN "Moderate Risk"
    ELSE IF index >= 7 /\ index <= 10 THEN "High Risk"
    ELSE "Very High Risk"

\* fetch_aqhi up to its response: Some(result) is an early return
fetch_aqhi_send(r) ==
    IF r.net_err THEN Some(Err(ErrorMsg("AQHI network error", 0)))
    ELSE IF ~response_ok(r.status) THEN Some(Err(ErrorMsg("AQHI fetch failed", 0)))
    ELSE None

\* fetch_aqhi from its body on
fetch_aqhi_text(t) ==
    IF t.read_err THEN Err(ErrorMsg("AQHI read error", 0))
    ELSE IF ~t.body.json THEN Err(ErrorMsg("AQHI JSON error", 0))
    ELSE IF t.body.aqhi = 0 THEN Err(ErrorMsg("No AQHI value found", 0))
    ELSE Ok([index |-> t.body.aqhi, category |-> aqhi_category(t.body.aqhi)])

\* the tail of fetch_and_parse: the AQHI result is merged when it is Ok
fetch_and_parse_merge(data, aqhi) ==
    IF aqhi.ok THEN Ok([data EXCEPT !.air_quality = Some(aqhi.val)]) ELSE Ok(data)

\* variant: the fetch is awaited without a timer to race it
fetch_weather_data_start_no_timer(iv) ==
    [iv EXCEPT !.in_flight = @ \cup {iv.attempts},
               !.stage = "send",
               !.parsed = None]

\* fetch_weather_data creates the fetch future and the timer and polls both:
\* the request of attempt iv.attempts is sent and its timer is armed
fetch_weather_data_start(iv) ==
    [iv EXCEPT !.in_flight = @ \cup {iv.attempts},
               !.timer = @ \cup {iv.attempts},
               !.stage = "send",
               !.parsed = None]

\* the match on select: the future that finished first decides the result
fetch_weather_data_select(winner, result) ==
    IF winner = "fetch" THEN result
    ELSE Err(ErrorMsg("Request timed out after seconds", FETCH_TIMEOUT_SECS))

\* variant: the request is detached from the race and outlives the return
fetch_weather_data_drop_leaks_fetch(iv) ==
    [iv EXCEPT !.timer = @ \ {iv.attempts}, !.stage = "none", !.parsed = None]

\* fetch_weather_data returns: the loser of the race is dropped with the winner
fetch_weather_data_drop(iv) ==
    [iv EXCEPT !.in_flight = @ \ {iv.attempts},
               !.timer = @ \ {iv.attempts},
               !.stage = "none",
               !.parsed = None]

----------------------------------------------------------------------------
(* src/components/weather.rs *)

\* the head of the loop of fetch_with_retry: attempts += 1
fetch_with_retry_loop(iv) ==
    [iv EXCEPT !.attempts = @ + 1, !.pc = "fetching", !.delay_ms = 0]

\* variant: the counter is published before attempts is incremented
retry_count_set_before_increment(iv) == iv.attempts - 1

\* retry_count.set(attempts)
retry_count_set(iv) == iv.attempts

\* the aggregate error of fetch_with_retry
FailedAfter(e) == [kind |-> "Failed after attempts", code |-> MAX_ATTEMPTS, cause |-> e]

\* variant: the guard of the retry arm reads attempts <= MAX_ATTEMPTS
fetch_with_retry_match_off_by_one(iv, res) ==
    IF res.ok THEN [iv EXCEPT !.pc = "done", !.result = Some(Ok(res.val))]
    ELSE IF iv.attempts <= MAX_ATTEMPTS
         THEN [iv EXCEPT !.pc = "backoff", !.delay_ms = pow(2, iv.attempts) * 1000]
    ELSE [iv EXCEPT !.pc = "done", !.result = Some(Err(FailedAfter(res.val)))]

\* variant: an Ok is only returned by the last attempt, earlier ones loop on
fetch_with_retry_match_keeps_looping(iv, res) ==
    IF iv.attempts < MAX_ATTEMPTS
    THEN [iv EXCEPT !.pc = "backoff", !.delay_ms = pow(2, iv.attempts) * 1000]
    ELSE IF res.ok THEN [iv EXCEPT !.pc = "done", !.result = Some(Ok(res.val))]
    ELSE [iv EXCEPT !.pc = "done", !.result = Some(Err(FailedAfter(res.val)))]

\* variant: a timeout is returned at once instead of being retried
fetch_with_retry_match_timeout_fatal(iv, res) ==
    IF res.ok THEN [iv EXCEPT !.pc = "done", !.result = Some(Ok(res.val))]
    ELSE IF iv.attempts < MAX_ATTEMPTS /\ res.val.kind # "Request timed out after seconds"
         THEN [iv EXCEPT !.pc = "backoff", !.delay_ms = pow(2, iv.attempts) * 1000]
    ELSE [iv EXCEPT !.pc = "done", !.result = Some(Err(FailedAfter(res.val)))]

\* variant: the backoff is a fixed 2 s
fetch_with_retry_match_fixed_delay(iv, res) ==
    IF res.ok THEN [iv EXCEPT !.pc = "done", !.result = Some(Ok(res.val))]
    ELSE IF iv.attempts < MAX_ATTEMPTS
         THEN [iv EXCEPT !.pc = "backoff", !.delay_ms = 2000]
    ELSE [iv EXCEPT !.pc = "done", !.result = Some(Err(FailedAfter(res.val)))]

\* variant: a body that does not parse is returned at once instead of retried
fetch_with_retry_match_parse_fatal(iv, res) ==
    IF res.ok THEN [iv EXCEPT !.pc = "done", !.result = Some(Ok(res.val))]
    ELSE IF iv.attempts < MAX_ATTEMPTS /\ res.val.kind # "JSON parse error"
         THEN [iv EXCEPT !.pc = "backoff", !.delay_ms = pow(2, iv.attempts) * 1000]
    ELSE [iv EXCEPT !.pc = "done", !.result = Some(Err(FailedAfter(res.val)))]

\* the match of fetch_with_retry on the result of an attempt
fetch_with_retry_match(iv, res) ==
    IF res.ok THEN [iv EXCEPT !.pc = "done", !.result = Some(Ok(res.val))]
    ELSE IF iv.attempts < MAX_ATTEMPTS
         THEN [iv EXCEPT !.pc = "backoff", !.delay_ms = pow(2, iv.attempts) * 1000]
    ELSE [iv EXCEPT !.pc = "done", !.result = Some(Err(FailedAfter(res.val)))]

\* variant: the task does not clear the error of the cycle before
task_start_keeps_error(cells) == [cells EXCEPT !.loading = TRUE]

\* the start of a fetch task: loading.set(true); error.set(None)
task_start(cells) == [cells EXCEPT !.loading = TRUE, !.error = None]

\* the match of a fetch task on the result of fetch_with_retry
task_match(cells, res) ==
    IF res.ok
    THEN [cells EXCEPT !.weather_data = Some(res.val), !.loading = FALSE, !.retry_count = 0]
    ELSE [cells EXCEPT !.error = Some(res.val), !.loading = FALSE]

\* the branch of html! the component renders
view(cells) ==
    IF cells.loading THEN "loading"
    ELSE IF cells.error # None THEN "error"
    ELSE IF cells.weather_data # None THEN "data"
    ELSE "empty"

----------------------------------------------------------------------------
(* src/context/weather.rs *)

\* WeatherData::default() of src/weather/models.rs; id stands for the rest
DefaultWeatherData == [location |-> "", id |-> 0]

\* what client.fetch_weather() can resolve to
ClientResults ==
    {Err(ErrorMsg("fetch_weather failed", 0))}
      \cup {Ok([location |-> "", id |-> d]) : d \in {0} \cup DataIds}
      \cup {Ok([location |-> "Toronto", id |-> d]) : d \in DataIds}

\* the start of fetch_weather_with_retry: attempt = 0, client.fetch_weather()
fetch_weather_with_retry_start(pv) ==
    [pv EXCEPT !.pc = "fetching", !.attempt = 0, !.calls = @ + 1]

\* variant: data with an empty location is taken as a success
fetch_weather_with_retry_match_takes_empty(pv, result) ==
    IF result.ok
    THEN [pv EXCEPT !.pc = "done", !.result = Some(result.val)]
    ELSE IF pv.attempt < MAX_RETRIES - 1
         THEN [pv EXCEPT !.pc = "sleeping", !.sleep_ms = RETRY_DELAY_MS]
    ELSE [pv EXCEPT !.pc = "done", !.result = Some(DefaultWeatherData)]

\* the body of the for loop after client.fetch_weather() resolved, and the
\* return after the loop
fetch_weather_with_retry_match(pv, result) ==
    IF result.ok /\ result.val.location # ""
    THEN [pv EXCEPT !.pc = "done", !.result = Some(result.val)]
    ELSE IF pv.attempt < MAX_RETRIES - 1
         THEN [pv EXCEPT !.pc = "sleeping", !.sleep_ms = RETRY_DELAY_MS]
    ELSE [pv EXCEPT !.pc = "done", !.result = Some(DefaultWeatherData)]

\* the sleep is over: the next iteration of the for loop
fetch_weather_with_retry_next(pv) ==
    [pv EXCEPT !.pc = "fetching", !.attempt = @ + 1, !.sleep_ms = 0, !.calls = @ + 1]

\* variant: data is only taken while nothing has been loaded
reduce_first_wins(self, data) ==
    IF self.is_loaded THEN self ELSE [is_loaded |-> TRUE, weather |-> data]

\* impl Reducible for WeatherCtx
reduce(self, data) == [is_loaded |-> TRUE, weather |-> data]

----------------------------------------------------------------------------
(* src/weather/api.rs: the JSON of the weather endpoint *)

\* what json.get("features") is in a text that is JSON
FeaturesKinds == {"missing", "not_array", "empty", "array"}

\* the texts parse_api_response is called with, by the path segments it looks
\* up: json is whether serde_json::from_str accepts the text, properties
\* whether the first feature has the key, the others whether properties has
\* the key; id stands for the values below the keys
JsonTexts ==
    [json : BOOLEAN, features : FeaturesKinds, properties : BOOLEAN,
     currentConditions : BOOLEAN, forecastGroup : BOOLEAN,
     hourlyForecastGroup : BOOLEAN, riseSet : BOOLEAN, warnings : BOOLEAN,
     id : DataIds]

\* the lookups of parse_api_response and of parse_current_conditions that end
\* in ok_or(..)? or map_err(..)?, in the order the code makes them;
\* parse_forecasts, parse_warnings and parse_sun_times return no Result
json_shape(text) ==
    IF ~text.json THEN "invalid_json"
    ELSE IF text.features \in {"missing", "not_array"} THEN "no_features"
    ELSE IF text.features = "empty" \/ ~text.properties THEN "no_properties"
    ELSE IF ~text.currentConditions THEN "no_current_conditions"
    ELSE "valid"

\* the body of a response with the given text
Body(text) ==
    [shape |-> json_shape(text),
     id |-> IF json_shape(text) = "valid" THEN text.id ELSE 0]

----------------------------------------------------------------------------
(* Condition strings and icons *)

\* the words condition strings are made of, as the feed spells them
Words == {"Sunny", "sun", "Clear", "Cloudy", "cloud", "Partly", "mix", "Rain",
          "Showers", "Drizzle", "Snow", "Flurries", "Thunderstorm", "Fog",
          "Mist", "Windy"}

\* a condition string is its words joined by single spaces
RECURSIVE Strings(_)
Strings(n) ==
    IF n = 0 THEN {<<>>}
    ELSE Strings(n - 1) \cup {Append(s, w) : s \in {t \in Strings(n - 1) : Len(t) = n - 1}, w \in Words}

Conditions == Strings(MaxWords)

\* str::to_lowercase of a word
to_lowercase(w) ==
    CASE w = "Sunny" -> "sunny"
      [] w = "Clear" -> "clear"
      [] w = "Cloudy" -> "cloudy"
      [] w = "Partly" -> "partly"
      [] w = "Rain" -> "rain"
      [] w = "Showers" -> "showers"
      [] w = "Drizzle" -> "drizzle"
      [] w = "Snow" -> "snow"
      [] w = "Flurries" -> "flurries"
      [] w = "Thunderstorm" -> "thunderstorm"
      [] w = "Fog" -> "fog"
      [] w = "Mist" -> "mist"
      [] w = "Windy" -> "windy"
      [] w = "Today" -> "today"
      [] w = "Tonight" -> "tonight"
      [] w = "Night" -> "night"
      [] w = "Monday" -> "monday"
      [] w = "Tuesday" -> "tuesday"
      [] w = "Wednesday" -> "wednesday"
      [] w = "Thursday" -> "thursday"
      [] w = "Friday" -> "friday"
      [] w = "Saturday" -> "saturday"
      [] w = "Sunday" -> "sunday"
      [] w = "Percent" -> "percent"
      [] w = "Wind" -> "wind"
      [] OTHER -> w

\* the keywords the parser searches for that are substrings of a lowercase word
keywords_in(w) ==
    CASE w = "sunny" -> {"sun", "sunny"}
      [] w = "sun" -> {"sun"}
      [] w = "clear" -> {"clear"}
      [] w = "cloudy" -> {"cloud"}
      [] w = "cloud" -> {"cloud"}
      [] w = "mix" -> {"mix"}
      [] w = "rain" -> {"rain"}
      [] w = "showers" -> {"shower"}
      [] w = "drizzle" -> {"drizzle"}
      [] w = "snow" -> {"snow"}
      [] w = "flurries" -> {"flurr"}
      [] w = "thunderstorm" -> {"thunder", "storm"}
      [] w = "fog" -> {"fog"}
      [] w = "mist" -> {"mist"}
      [] w = "night" -> {"night"}
      [] w = "tonight" -> {"night", "tonight"}
      [] w = "percent" -> {"percent"}
      [] OTHER -> {}

\* condition.to_lowercase().contains(keyword), for a keyword without a space
contains(condition, keyword) ==
    \E k \in 1..Len(condition) : keyword \in keywords_in(to_lowercase(condition[k]))

\* condition.to_lowercase().contains("partly cloudy")
contains_partly_cloudy(condition) ==
    \E k \in 1..(Len(condition) - 1) :
        /\ to_lowercase(condition[k]) = "partly"
        /\ to_lowercase(condition[k + 1]) = "cloudy"

\* an icon is a string literal: the glyph it was typed as and the bytes it is
\* stored as, which are not the same in api.rs and in models.rs
Icon(glyph, file) == [glyph |-> glyph, literal |-> file]

\* impl DailyForecast of api.rs
get_emoji(condition) ==
    IF contains(condition, "sun") \/ contains(condition, "clear")
    THEN Icon("sun", "api.rs")
    ELSE IF contains(condition, "cloud") /\ contains(condition, "sun")
    THEN Icon("sun behind cloud", "api.rs")
    ELSE IF contains(condition, "cloud")
    THEN Icon("cloud", "api.rs")
    ELSE IF contains(condition, "rain") \/ contains(condition, "shower")
    THEN Icon("cloud with rain", "api.rs")
    ELSE IF contains(condition, "snow") \/ contains(condition, "flurr")
    THEN Icon("snowflake", "api.rs")
    ELSE IF contains(condition, "thunder") \/ contains(condition, "storm")
    THEN Icon("thunder cloud and rain", "api.rs")
    ELSE IF contains(condition, "fog") \/ contains(condition, "mist")
    THEN Icon("fog", "api.rs")
    ELSE Icon("sun behind small cloud", "api.rs")

get_weather_icon(condition) ==
    IF contains(condition, "sun") \/ contains(condition, "clear")
    THEN Icon("sun", "api.rs")
    ELSE IF contains(condition, "cloud")
            /\ (contains(condition, "sun") \/ contains(condition, "clear"))
    THEN Icon("sun behind cloud", "api.rs")
    ELSE IF contains(condition, "cloud")
    THEN Icon("cloud", "api.rs")
    ELSE IF contains(condition, "rain") \/ contains(condition, "shower")
            \/ contains(condition, "drizzle")
    THEN Icon("cloud with rain", "api.rs")
    ELSE IF contains(condition, "snow") \/ contains(condition, "flurr")
    THEN Icon("snowflake", "api.rs")
    ELSE IF contains(condition, "thunder") \/ contains(condition, "storm")
    THEN Icon("thunder cloud and rain", "api.rs")
    ELSE IF contains(condition, "fog") \/ contains(condition, "mist")
    THEN Icon("fog", "api.rs")
    ELSE Icon("sun behind small cloud", "api.rs")

\* impl DailyForecast of models.rs
models_get_emoji(summary) ==
    IF contains(summary, "sunny") \/ contains(summary, "clear")
    THEN Icon("sun", "models.rs")
    ELSE IF contains_partly_cloudy(summary) \/ contains(summary, "mix")
    THEN Icon("sun behind cloud", "models.rs")
    ELSE IF contains(summary, "cloud")
    THEN Icon("cloud", "models.rs")
    ELSE IF contains(summary, "rain") \/ contains(summary, "shower")
    THEN Icon("cloud with rain", "models.rs")
    ELSE IF contains(summary, "snow")
    THEN Icon("cloud with snow", "models.rs")
    ELSE IF contains(summary, "storm")
    THEN Icon("thunder cloud and rain", "models.rs")
    ELSE Icon("sun behind small cloud", "models.rs")

----------------------------------------------------------------------------
(* src/weather/api.rs: parse_forecasts *)

\* Option::unwrap_or
unwrap_or(o, default) == IF o = None THEN default ELSE o[1]

\* word.parse::<u32>() of a word of a text summary
parse_u32(word) ==
    CASE word = "20" -> Some(20)
      [] word = "30" -> Some(30)
      [] word = "60" -> Some(60)
      [] word = "70" -> Some(70)
      [] OTHER -> None

\* the last word of the words before that parses as a number, else 0
RECURSIVE last_number(_)
last_number(before) ==
    IF before = <<>> THEN 0
    ELSE IF parse_u32(before[Len(before)]) # None THEN parse_u32(before[Len(before)])[1]
    ELSE last_number(SubSeq(before, 1, Len(before) - 1))

\* a text is its words, separated by whitespace; find("percent") is the first
\* word of the lowercase text with "percent" in it
extract_pop(text) ==
    LET found == {k \in 1..Len(text) : "percent" \in keywords_in(to_lowercase(text[k]))}
    IN IF found = {} THEN 0
       ELSE LET pos == CHOOSE k \in found : \A m \in found : k <= m
            IN last_number(SubSeq(text, 1, pos - 1))

\* period.to_lowercase().contains("night") || ..contains("tonight")
is_night(period) == contains(period, "night") \/ contains(period, "tonight")

\* period.replace(" night", ""): every word "night" after a space goes
replace_night(period) ==
    IF period = <<>> THEN <<>>
    ELSE <<period[1]>> \o SelectSeq(Tail(period), LAMBDA w : w # "night")

\* name.replace("tonight", "Friday")
replace_tonight(name) ==
    [k \in 1..Len(name) |-> IF name[k] = "tonight" THEN "Friday" ELSE name[k]]

day_name(period) ==
    IF is_night(period) THEN replace_tonight(replace_night(period)) ELSE period

\* or_insert((None, None, String::new(), None, None, None, None)), the fields
\* named as in DailyForecast
NewEntry ==
    [high |-> None, low |-> None, summary |-> <<>>, pop |-> None,
     uv_index |-> None, wind_chill |-> None, wind_summary |-> None]

\* variant: the pop of the period seen last wins
fold_forecast_last_pop(entry, fc) ==
    LET pop == extract_pop(fc.text_summary)
        e1 == IF fc.temp_class = "high" \/ ~is_night(fc.period)
              THEN [entry EXCEPT
                      !.high = fc.temp,
                      !.summary = IF @ = <<>> THEN fc.summary ELSE @,
                      !.uv_index = IF fc.uv_index # None THEN fc.uv_index ELSE @,
                      !.wind_summary = IF fc.wind_summary # None THEN fc.wind_summary ELSE @]
              ELSE [entry EXCEPT !.low = fc.temp]
        e2 == IF pop > 0 THEN [e1 EXCEPT !.pop = Some(pop)] ELSE e1
    IN IF fc.wind_chill # None /\ e2.wind_chill = None
       THEN [e2 EXCEPT !.wind_chill = fc.wind_chill]
       ELSE e2

\* the body of the first loop after the entry of the day has been looked up
fold_forecast(entry, fc) ==
    LET pop == extract_pop(fc.text_summary)
        e1 == IF fc.temp_class = "high" \/ ~is_night(fc.period)
              THEN [entry EXCEPT
                      !.high = fc.temp,
                      !.summary = IF @ = <<>> THEN fc.summary ELSE @,
                      !.uv_index = IF fc.uv_index # None THEN fc.uv_index ELSE @,
                      !.wind_summary = IF fc.wind_summary # None THEN fc.wind_summary ELSE @]
              ELSE [entry EXCEPT !.low = fc.temp]
        e2 == IF pop > 0 /\ unwrap_or(e1.pop, 0) < pop
              THEN [e1 EXCEPT !.pop = Some(pop)]
              ELSE e1
    IN IF fc.wind_chill # None /\ e2.wind_chill = None
       THEN [e2 EXCEPT !.wind_chill = fc.wind_chill]
       ELSE e2

\* the HashMap day_forecasts after the first loop over forecasts
RECURSIVE day_forecasts(_)
day_forecasts(forecasts) ==
    IF forecasts = <<>> THEN <<>>
    ELSE LET n == Len(forecasts)
             map == day_forecasts(SubSeq(forecasts, 1, n - 1))
             fc == forecasts[n]
             name == day_name(fc.period)
             entry == IF name \in DOMAIN map THEN map[name] ELSE NewEntry
         IN [d \in DOMAIN map \cup {name} |->
                IF d = name THEN fold_forecast(entry, fc) ELSE map[d]]

\* the second loop: a DailyForecast per day name, in order of first appearance
RECURSIVE daily_forecasts(_, _)
daily_forecasts(forecasts, map) ==
    IF forecasts = <<>> THEN <<>>
    ELSE LET n == Len(forecasts)
             before == SubSeq(forecasts, 1, n - 1)
             seen_days == {day_name(before[k].period) : k \in 1..(n - 1)}
             name == day_name(forecasts[n].period)
         IN IF name \in seen_days \/ name \notin DOMAIN map
            THEN daily_forecasts(before, map)
            ELSE Append(daily_forecasts(before, map),
                        [day_name |-> name,
                         high |-> map[name].high,
                         low |-> map[name].low,
                         summary |-> map[name].summary,
                         pop |-> map[name].pop,
                         icon |-> get_emoji(map[name].summary),
                         uv_index |-> map[name].uv_index,
                         wind_chill |-> map[name].wind_chill,
                         wind_summary |-> map[name].wind_summary])

\* variant: nothing is dropped
truncate_keeps_all(v, len) == v

\* Vec::truncate
truncate(v, len) == IF Len(v) > len THEN SubSeq(v, 1, len) ELSE v

\* the % of Rust's integers: the remainder has the sign of the dividend
rem(a, b) == IF a >= 0 THEN a % b ELSE 0 - ((0 - a) % b)

\* variant: noon and the hours after it lose 12
format_utc_to_local_time_noon_is_zero(utc_str) ==
    IF utc_str.hour # None
    THEN LET hour == utc_str.hour[1]
             local_hour == rem(hour - 5 + 24, 24)
         IN [display_hour |-> IF local_hour = 0 THEN 12
                              ELSE IF local_hour >= 12 THEN local_hour - 12
                              ELSE local_hour,
             minute |-> unwrap_or(utc_str.minute, "00"),
             am_pm |-> IF local_hour < 12 THEN "AM" ELSE "PM"]
    ELSE utc_str

\* a timestamp is the hour after its 'T', None when there is no 'T' or no
\* number after it, and the text between the first two ':' after the hour;
\* the text returned is "display_hour:minute am_pm"
format_utc_to_local_time(utc_str) ==
    IF utc_str.hour # None
    THEN LET hour == utc_str.hour[1]
             local_hour == rem(hour - 5 + 24, 24)
         IN [display_hour |-> IF local_hour = 0 THEN 12
                              ELSE IF local_hour > 12 THEN local_hour - 12
                              ELSE local_hour,
             minute |-> unwrap_or(utc_str.minute, "00"),
             am_pm |-> IF local_hour < 12 THEN "AM" ELSE "PM"]
    ELSE utc_str

\* fc.get("timestamp")...unwrap_or("")
NoTimestamp == [hour |-> None, minute |-> None]

\* the body of the loop over the hourly forecasts
hourly_forecast(fc) ==
    [time |-> format_utc_to_local_time(unwrap_or(fc.timestamp, NoTimestamp)),
     temperature |-> unwrap_or(fc.temperature, 0),
     condition |-> unwrap_or(fc.condition, <<>>),
     pop |-> unwrap_or(fc.lop, 0),
     icon |-> get_emoji(unwrap_or(fc.condition, <<>>)),
     wind_speed |-> unwrap_or(fc.wind_speed, 0),
     wind_direction |-> unwrap_or(fc.wind_direction, ""),
     wind_chill |-> fc.windChill]

\* Iterator::take
take(v, n) == IF Len(v) > n THEN SubSeq(v, 1, n) ELSE v

\* props is the hourlyForecasts array of hourlyForecastGroup and the forecasts
\* array of forecastGroup, each None when it cannot be reached
parse_forecasts(props) ==
    LET hourly == IF props.hourlyForecasts = None THEN <<>>
                  ELSE LET forecasts == take(props.hourlyForecasts[1], 24)
                       IN [k \in 1..Len(forecasts) |-> hourly_forecast(forecasts[k])]
        daily == IF props.forecasts = None THEN <<>>
                 ELSE LET forecasts == props.forecasts[1]
                      IN daily_forecasts(forecasts, day_forecasts(forecasts))
    IN [hourly |-> hourly, daily |-> truncate(daily, 7)]

----------------------------------------------------------------------------
(* src/components/bin.rs *)

\* TimeDelta::num_days of a difference in hours: whole days, toward zero
num_days(diff) == IF diff >= 0 THEN diff \div 24 ELSE 0 - ((0 - diff) \div 24)

\* chrono::Duration::days(n), in hours
Duration_days(n) == 24 * n

\* An instant is a number of hours; hour 0 is a Monday 00:00 UTC.  A zone is
\* the offset of Local before and after one change of the clocks.
\* Local's offset from UTC, in hours, at an instant
offset_from_utc(tz, utc) == IF utc < tz.change_at THEN tz.before ELSE tz.after

\* DateTime<Local>::weekday().num_days_from_monday()
num_days_from_monday(tz, utc) == ((utc + offset_from_utc(tz, utc)) \div 24) % 7

\* DateTime<Local>::format("%A")
format_A(tz, utc) ==
    <<"Monday", "Tuesday", "Wednesday", "Thursday", "Friday", "Saturday",
      "Sunday">>[num_days_from_monday(tz, utc) + 1]

\* Weekday::Thu
Thu == 3

\* the instant of Local.with_ymd_and_hms(2025, 10, 16, 0, 0, 0), the origin of
\* the clock get_alternate_bin is called with
known_yellow_bin_day == 0

\* get_alternate_bin(), today being what get_today() returns
get_alternate_bin(today) ==
    LET diff == today - known_yellow_bin_day
        wat == rem(num_days(diff), 14)
    IN IF wat # 0 /\ wat <= 7 THEN "None" ELSE "Yellow"

\* BinComponent::view: the countdown, the day whose forecast is looked up and
\* the text shown
BinComponent_view(tz, self) ==
    LET days_until_pickup == (3 + 7 - num_days_from_monday(tz, self.current_time)) % 7
        days_text == IF days_until_pickup = 0 THEN <<"Today">>
                     ELSE IF days_until_pickup = 1 THEN <<"Tomorrow">>
                     ELSE <<days_until_pickup, "days">>
        pickup_date == self.current_time + Duration_days(days_until_pickup)
    IN [days_until_pickup |-> days_until_pickup,
        day_name |-> format_A(tz, pickup_date),
        text |-> IF num_days_from_monday(tz, self.current_time) = Thu
                 THEN <<"BIN DAY TODAY!!">> ELSE days_text]

----------------------------------------------------------------------------
(* src/weather/components.rs *)

\* variant: a failed load forgets the data
update_err_clears_weather(self, on_weather_loaded, msg) ==
    IF msg.msg = "LoadWeather"
    THEN [self |-> [self EXCEPT !.loading = TRUE], spawn |-> TRUE, emit |-> None]
    ELSE LET result == msg.result[1]
         IN IF result.ok
            THEN [self |-> [self EXCEPT !.loading = FALSE,
                                        !.weather = Some(result.val),
                                        !.error = None],
                  spawn |-> FALSE,
                  emit |-> IF on_weather_loaded THEN Some(result.val) ELSE None]
            ELSE [self |-> [self EXCEPT !.loading = FALSE,
                                        !.weather = None,
                                        !.error = Some(result.val)],
                  spawn |-> FALSE,
                  emit |-> None]

\* WeatherDisplay::update: the component after the message, whether a fetch
\* task is spawned, and what is emitted to on_weather_loaded
update(self, on_weather_loaded, msg) ==
    IF msg.msg = "LoadWeather"
    THEN [self |-> [self EXCEPT !.loading = TRUE], spawn |-> TRUE, emit |-> None]
    ELSE LET result == msg.result[1]
         IN IF result.ok
            THEN [self |-> [self EXCEPT !.loading = FALSE,
                                        !.weather = Some(result.val),
                                        !.error = None],
                  spawn |-> FALSE,
                  emit |-> IF on_weather_loaded THEN Some(result.val) ELSE None]
            ELSE [self |-> [self EXCEPT !.loading = FALSE,
                                        !.error = Some(result.val)],
                  spawn |-> FALSE,
                  emit |-> None]

\* WeatherDisplay::view: the branch rendered
WeatherDisplay_view(self) ==
    IF self.loading /\ self.weather = None THEN "loading"
    ELSE IF self.weather # None THEN "weather"
    ELSE IF self.error # None THEN "error"
    ELSE "no data"

----------------------------------------------------------------------------
(* State *)

VARIABLES
    weather_data,   \* Weather: use_state(|| None::<WeatherData>)
    loading,        \* Weather: use_state(|| true)
    error,          \* Weather: use_state(|| None::<String>)
    retry_count,    \* Weather: use_state(|| 0)
    inv,            \* Weather: the fetch tasks, by order of spawning
    ctx,            \* WeatherProvider: the WeatherCtx of use_reducer
    pinv,           \* WeatherProvider: the fetch tasks, by order of spawning
    dispatched,     \* WeatherProvider: the tasks that have dispatched, in order
    call,           \* api.rs: the function of the parser called and its argument
    ret,            \* api.rs: what the call returned, None until it has
    display,        \* WeatherDisplay: the fields weather, loading and error
    props,          \* WeatherDisplay: ctx.props(), whether on_weather_loaded is set
    mailbox,        \* WeatherDisplay: the messages sent and not yet handled
    fetches,        \* WeatherDisplay: the fetch tasks spawned and not yet done
    ticks,          \* WeatherDisplay: how often the Interval has fired
    emitted         \* WeatherDisplay: the data emitted to on_weather_loaded

wvars == <<weather_data, loading, error, retry_count, inv>>

pvars == <<ctx, pinv, dispatched>>

fvars == <<call, ret>>

dvars == <<display, props, mailbox, fetches, ticks, emitted>>

vars == <<weather_data, loading, error, retry_count, inv, ctx, pinv, dispatched,
          call, ret, display, props, mailbox, fetches, ticks, emitted>>

Invocations == 1..MaxInvocations

\* the four state cells as one value
Cells == [weather_data |-> weather_data, loading |-> loading,
          error |-> error, retry_count |-> retry_count]

\* a fetch task that has not been spawned: the locals of fetch_with_retry and
\* of fetch_and_parse, the futures alive, and counters of what has happened
NewInvocation ==
    [pc |-> "unspawned", attempts |-> 0, stage |-> "none", parsed |-> None,
     in_flight |-> {}, timer |-> {}, delay_ms |-> 0, result |-> None,
     calls |-> 0, failed |-> 0, succeeded |-> 0, last_err |-> None]

ProviderInvocations == 1..MaxProviderInvocations

\* a fetch task of the provider that has not been spawned
NewProviderInvocation ==
    [pc |-> "unspawned", attempt |-> 0, sleep_ms |-> 0, result |-> None,
     calls |-> 0, failed |-> 0, sleeps |-> 0]

\* no function of the parser is being called
NoCall == [fn |-> "none", arg |-> None]

\* the app after construction
InitApp ==
    /\ weather_data = None
    /\ loading = TRUE
    /\ error = None
    /\ retry_count = 0
    /\ inv = [i \in Invocations |-> NewInvocation]
    /\ ctx = [is_loaded |-> FALSE, weather |-> DefaultWeatherData]
    /\ pinv = [j \in ProviderInvocations |-> NewProviderInvocation]
    /\ dispatched = <<>>

\* WeatherMsg
LoadWeather == [msg |-> "LoadWeather", result |-> None]

WeatherLoaded(result) == [msg |-> "WeatherLoaded", result |-> Some(result)]

\* WeatherDisplay::create: the component it returns and the message it sends
create ==
    [self |-> [weather |-> None, loading |-> TRUE, error |-> None],
     send |-> <<LoadWeather>>]

\* the WeatherDisplay after create, on_weather_loaded at its default
InitDisplay ==
    /\ display = create.self
    /\ props = [on_weather_loaded |-> FALSE]
    /\ mailbox = create.send
    /\ fetches = 0
    /\ ticks = 0
    /\ emitted = <<>>

Init ==
    /\ InitApp
    /\ InitDisplay
    /\ call = NoCall
    /\ ret = None

----------------------------------------------------------------------------
(* Weather component: actions *)

SetCells(c) ==
    /\ weather_data' = c.weather_data
    /\ loading' = c.loading
    /\ error' = c.error
    /\ retry_count' = c.retry_count

\* fetch_with_retry starts its next attempt and runs to the first await of it
IssueAttempt(i, iv, cells) ==
    LET a == fetch_with_retry_loop(iv)
        b == fetch_weather_data_start(a)
    IN /\ inv' = [inv EXCEPT ![i] = [b EXCEPT !.calls = @ + 1]]
       /\ SetCells([cells EXCEPT !.retry_count = retry_count_set(a)])

\* the attempt of task i ends: fetch_weather_data returns, fetch_with_retry
\* matches on the result and, when it returns, the task stores the outcome
AttemptEnds(i, winner, result) ==
    LET res == fetch_weather_data_select(winner, result)
        m == fetch_with_retry_match(fetch_weather_data_drop(inv[i]), res)
    IN /\ inv' = [inv EXCEPT ![i] =
                    [m EXCEPT !.failed = IF res.ok THEN @ ELSE @ + 1,
                              !.succeeded = IF res.ok THEN @ + 1 ELSE @,
                              !.last_err = IF res.ok THEN @ ELSE Some(res.val)]]
       /\ IF m.pc = "done"
          THEN SetCells(task_match(Cells, m.result[1]))
          ELSE UNCHANGED <<weather_data, loading, error, retry_count>>

\* use_effect_with((), ..): the task spawned on mount runs to its first await
Mount ==
    /\ inv[1].pc = "unspawned"
    /\ IssueAttempt(1, inv[1], task_start(Cells))
    /\ UNCHANGED <<pvars, fvars, dvars>>

\* on_retry: the button of the error panel is clicked; the task it spawns runs
\* to its first await before the browser delivers another event
OnRetry(i) ==
    /\ i > 1
    /\ inv[i].pc = "unspawned"
    /\ inv[i - 1].pc = "done"
    /\ view(Cells) = "error"
    /\ IssueAttempt(i, inv[i], task_start(Cells))
    /\ UNCHANGED <<pvars, fvars, dvars>>

Fetching(i, stage) ==
    /\ inv[i].pc = "fetching"
    /\ inv[i].attempts \in inv[i].in_flight
    /\ inv[i].stage = stage

\* Request::get(WEATHER_API_URL).send() completes
SendCompletes(i) ==
    /\ Fetching(i, "send")
    /\ \E r \in SendResults :
         LET early == fetch_and_parse_send(r)
         IN IF early = None
            THEN /\ inv' = [inv EXCEPT ![i].stage = "text"]
                 /\ UNCHANGED <<weather_data, loading, error, retry_count>>
            ELSE AttemptEnds(i, "fetch", early[1])
    /\ UNCHANGED <<pvars, fvars, dvars>>

\* response.text() completes; the body is parsed and the AQHI request is sent
TextCompletes(i) ==
    /\ Fetching(i, "text")
    /\ \E t \in TextResults :
         LET parsed == fetch_and_parse_text(t)
         IN IF parsed.ok
            THEN /\ inv' = [inv EXCEPT ![i].stage = "aqhi_send",
                                       ![i].parsed = Some(parsed.val)]
                 /\ UNCHANGED <<weather_data, loading, error, retry_count>>
            ELSE AttemptEnds(i, "fetch", parsed)
    /\ UNCHANGED <<pvars, fvars, dvars>>

\* Request::get(AQHI_API_URL).send() completes
AqhiSendCompletes(i) ==
    /\ Fetching(i, "aqhi_send")
    /\ \E r \in SendResults :
         LET early == fetch_aqhi_send(r)
         IN IF early = None
            THEN /\ inv' = [inv EXCEPT ![i].stage = "aqhi_text"]
                 /\ UNCHANGED <<weather_data, loading, error, retry_count>>
            ELSE AttemptEnds(i, "fetch", fetch_and_parse_merge(inv[i].parsed[1], early[1]))
    /\ UNCHANGED <<pvars, fvars, dvars>>

\* the text() of the AQHI response completes
AqhiTextCompletes(i) ==
    /\ Fetching(i, "aqhi_text")
    /\ \E t \in AqhiTextResults :
         AttemptEnds(i, "fetch", fetch_and_parse_merge(inv[i].parsed[1], fetch_aqhi_text(t)))
    /\ UNCHANGED <<pvars, fvars, dvars>>

\* TimeoutFuture::new(FETCH_TIMEOUT_SECS * 1000) fires before the fetch is done
Timeout(i) ==
    /\ inv[i].pc = "fetching"
    /\ inv[i].timer # {}
    /\ AttemptEnds(i, "timer", Err(ErrorMsg("pending", 0)))
    /\ UNCHANGED <<pvars, fvars, dvars>>

\* TimeoutFuture::new(delay_ms) of the backoff fires
BackoffElapsed(i) ==
    /\ inv[i].pc = "backoff"
    /\ inv[i].delay_ms > 0
    /\ IssueAttempt(i, inv[i], Cells)
    /\ UNCHANGED <<pvars, fvars, dvars>>

----------------------------------------------------------------------------
(* WeatherProvider: actions *)

\* client.fetch_weather() of task j resolved; when fetch_weather_with_retry
\* returns, the task dispatches the data to the reducer
FetchWeatherEnds(j, result) ==
    LET m == fetch_weather_with_retry_match(pinv[j], result)
        failure == ~(result.ok /\ result.val.location # "")
    IN /\ pinv' = [pinv EXCEPT ![j] =
                     [m EXCEPT !.failed = IF failure THEN @ + 1 ELSE @,
                               !.sleeps = IF m.pc = "sleeping" THEN @ + 1 ELSE @]]
       /\ IF m.pc = "done"
          THEN /\ ctx' = reduce(ctx, m.result[1])
               /\ dispatched' = Append(dispatched, j)
          ELSE UNCHANGED <<ctx, dispatched>>

\* use_effect_with((), ..) of the provider: the initial fetch
ProviderMount ==
    /\ pinv[1].pc = "unspawned"
    /\ pinv' = [pinv EXCEPT ![1] = fetch_weather_with_retry_start(pinv[1])]
    /\ UNCHANGED <<ctx, dispatched>>
    /\ UNCHANGED <<wvars, fvars, dvars>>

\* use_interval fires: a refresh task is spawned, whatever the others do
IntervalTick(j) ==
    /\ j > 1
    /\ pinv[j].pc = "unspawned"
    /\ pinv[j - 1].pc # "unspawned"
    /\ pinv' = [pinv EXCEPT ![j] = fetch_weather_with_retry_start(pinv[j])]
    /\ UNCHANGED <<ctx, dispatched>>
    /\ UNCHANGED <<wvars, fvars, dvars>>

FetchWeatherCompletes(j) ==
    /\ pinv[j].pc = "fetching"
    /\ \E result \in ClientResults : FetchWeatherEnds(j, result)
    /\ UNCHANGED <<wvars, fvars, dvars>>

\* sleep(Duration::from_millis(RETRY_DELAY_MS)) is over
SleepElapsed(j) ==
    /\ pinv[j].pc = "sleeping"
    /\ pinv' = [pinv EXCEPT ![j] = fetch_weather_with_retry_next(pinv[j])]
    /\ UNCHANGED <<ctx, dispatched>>
    /\ UNCHANGED <<wvars, fvars, dvars>>

----------------------------------------------------------------------------
(* The parser of src/weather/api.rs: actions *)

Calling(fn) == call.fn = fn /\ ret = None

Return(value) == ret' = Some(value) /\ UNCHANGED call

\* parse_api_response(&text) returns
ParseApiResponse ==
    /\ Calling("parse_api_response")
    /\ Return(parse_api_response(Body(call.arg)))
    /\ UNCHANGED <<wvars, pvars, dvars>>

\* get_weather_icon(&condition) returns
GetWeatherIcon ==
    /\ Calling("get_weather_icon")
    /\ Return(get_weather_icon(call.arg))
    /\ UNCHANGED <<wvars, pvars, dvars>>

\* DailyForecast::get_emoji(condition) of api.rs returns
GetEmoji ==
    /\ Calling("get_emoji")
    /\ Return(get_emoji(call.arg))
    /\ UNCHANGED <<wvars, pvars, dvars>>

\* DailyForecast::get_emoji(summary) of models.rs returns
ModelsGetEmoji ==
    /\ Calling("models_get_emoji")
    /\ Return(models_get_emoji(call.arg))
    /\ UNCHANGED <<wvars, pvars, dvars>>

\* parse_forecasts(props) returns
ParseForecasts ==
    /\ Calling("parse_forecasts")
    /\ Return(parse_forecasts(call.arg))
    /\ UNCHANGED <<wvars, pvars, dvars>>

\* format_utc_to_local_time(utc_str) returns, as called by parse_sun_times
FormatUtcToLocalTime ==
    /\ Calling("format_utc_to_local_time")
    /\ Return(format_utc_to_local_time(call.arg))
    /\ UNCHANGED <<wvars, pvars, dvars>>

----------------------------------------------------------------------------
(* WeatherDisplay: actions *)

\* the parent renders the component with other props
PropsChange ==
    /\ props' = [on_weather_loaded |-> ~props.on_weather_loaded]
    /\ UNCHANGED <<display, mailbox, fetches, ticks, emitted>>
    /\ UNCHANGED <<wvars, pvars, fvars>>

\* the Interval of create fires: link.send_message(LoadWeather)
RefreshTick ==
    /\ ticks < MaxTicks
    /\ ticks' = ticks + 1
    /\ mailbox' = Append(mailbox, LoadWeather)
    /\ UNCHANGED <<display, props, fetches, emitted>>
    /\ UNCHANGED <<wvars, pvars, fvars>>

\* update is called with the first message of the mailbox
Update ==
    /\ mailbox # <<>>
    /\ LET u == update(display, props.on_weather_loaded, Head(mailbox))
       IN /\ display' = u.self
          /\ fetches' = IF u.spawn THEN fetches + 1 ELSE fetches
          /\ emitted' = IF u.emit # None THEN Append(emitted, u.emit[1]) ELSE emitted
    /\ mailbox' = Tail(mailbox)
    /\ UNCHANGED <<props, ticks>>
    /\ UNCHANGED <<wvars, pvars, fvars>>

\* client.fetch_weather() of a spawned task resolves:
\* link.send_message(WeatherLoaded(result))
DisplayFetchCompletes ==
    /\ fetches > 0
    /\ \E result \in ClientResults :
          mailbox' = Append(mailbox, WeatherLoaded(result))
    /\ fetches' = fetches - 1
    /\ UNCHANGED <<display, props, ticks, emitted>>
    /\ UNCHANGED <<wvars, pvars, fvars>>

----------------------------------------------------------------------------
(* Specifications *)

\* the Weather component alone
NextWeather ==
    \/ Mount
    \/ \E i \in Invocations : OnRetry(i)
    \/ \E i \in Invocations : SendCompletes(i)
    \/ \E i \in Invocations : TextCompletes(i)
    \/ \E i \in Invocations : AqhiSendCompletes(i)
    \/ \E i \in Invocations : AqhiTextCompletes(i)
    \/ \E i \in Invocations : Timeout(i)
    \/ \E i \in Invocations : BackoffElapsed(i)

SpecWeather == Init /\ [][NextWeather]_vars

\* the Weather component with the timers of the browser: a TimeoutFuture
\* that stays armed fires; nothing is assumed of the network
SpecWeatherTimers ==
    /\ SpecWeather
    /\ \A i \in Invocations : WF_vars(Timeout(i)) /\ WF_vars(BackoffElapsed(i))

\* the WeatherProvider alone
NextProvider ==
    \/ ProviderMount
    \/ \E j \in ProviderInvocations : IntervalTick(j)
    \/ \E j \in ProviderInvocations : FetchWeatherCompletes(j)
    \/ \E j \in ProviderInvocations : SleepElapsed(j)

SpecProvider == Init /\ [][NextProvider]_vars

\* the WeatherDisplay component alone
NextDisplay ==
    \/ PropsChange
    \/ RefreshTick
    \/ Update
    \/ DisplayFetchCompletes

SpecDisplay == Init /\ [][NextDisplay]_vars

\* the app of main.rs mounts both
Next == NextWeather \/ NextProvider

Spec == Init /\ [][Next]_vars

----------------------------------------------------------------------------
(* Forecast feeds *)

\* the sequences over S of length at most n
RECURSIVE SeqsUpTo(_, _)
SeqsUpTo(S, n) ==
    IF n = 0 THEN {<<>>}
    ELSE LET shorter == SeqsUpTo(S, n - 1)
         IN shorter \cup {Append(s, x) : s \in {t \in shorter : Len(t) = n - 1}, x \in S}

\* textSummary texts: no POP, "30 percent", "60 Percent", and a text with
\* another number before the POP
Texts == {<<>>, <<"30", "percent">>, <<"60", "Percent">>,
          <<"Wind", "20", "km/h.", "70", "percent">>}

\* what varies in a period of a short feed about day and night: its name and
\* the class of its temperature
FoldPeriods ==
    [period : {<<"Monday">>, <<"Monday", "night">>, <<"Friday">>,
               <<"Friday", "night">>, <<"tonight">>},
     temp_class : {"high", "low"},
     text_summary : {<<>>}]

\* what varies in a period of a short feed about POP: its name and its text
PopPeriods ==
    {[period |-> p,
      temp_class |-> IF is_night(p) THEN "low" ELSE "high",
      text_summary |-> t] :
        p \in {<<"Monday">>, <<"Monday", "night">>, <<"Tuesday">>}, t \in Texts}

\* the periods of a week of forecasts, as the feed names them
Week ==
    <<<<"Today">>, <<"Tonight">>,
      <<"Monday">>, <<"Monday", "night">>, <<"Tuesday">>, <<"Tuesday", "night">>,
      <<"Wednesday">>, <<"Wednesday", "night">>, <<"Thursday">>, <<"Thursday", "night">>,
      <<"Friday">>, <<"Friday", "night">>, <<"Saturday">>, <<"Saturday", "night">>,
      <<"Sunday">>, <<"Sunday", "night">>>>

\* the periods of Week at the positions K, in the order of Week
RECURSIVE WeekPeriods(_)
WeekPeriods(K) ==
    IF K = {} THEN <<>>
    ELSE LET m == CHOOSE k \in K : \A j \in K : k <= j
         IN <<[period |-> Week[m],
               temp_class |-> IF is_night(Week[m]) THEN "low" ELSE "high",
               text_summary |-> <<>>]>> \o WeekPeriods(K \ {m})

\* the abbreviated summary of the period at position k of a feed
SummaryAt(k) ==
    CASE k = 1 -> <<"Sunny">>
      [] k = 2 -> <<"Cloudy">>
      [] k = 3 -> <<"Rain">>
      [] k = 4 -> <<"Snow">>
      [] OTHER -> <<"Fog">>

\* the forecasts array with the given periods: the temperature, the summary,
\* the UV text and the wind chill text of a period tell its position
Forecasts(periods) ==
    [k \in 1..Len(periods) |->
        [period |-> periods[k].period,
         summary |-> SummaryAt(k),
         temp |-> Some(k),
         temp_class |-> periods[k].temp_class,
         text_summary |-> periods[k].text_summary,
         uv_index |-> IF is_night(periods[k].period) THEN None ELSE Some(k),
         wind_chill |-> Some(k),
         wind_summary |-> None]]

Feeds ==
    {Forecasts(periods) : periods \in SeqsUpTo(FoldPeriods, MaxPeriods)}
        \cup {Forecasts(periods) : periods \in SeqsUpTo(PopPeriods, MaxPeriods)}
        \cup {Forecasts(WeekPeriods(K)) : K \in SUBSET (1..MaxWeek)}

\* the hourlyForecasts array of n hours; the second has only a timestamp
HourlyForecasts(n) ==
    [k \in 1..n |->
        IF k = 2
        THEN [timestamp |-> Some([hour |-> Some(k % 24), minute |-> Some("30")]),
              temperature |-> None, condition |-> None, lop |-> None,
              wind_speed |-> None, wind_direction |-> None, windChill |-> None]
        ELSE [timestamp |-> Some([hour |-> Some(k % 24), minute |-> Some("00")]),
              temperature |-> Some(k), condition |-> Some(SummaryAt((k % 5) + 1)),
              lop |-> Some(10 * (k % 5)), wind_speed |-> Some(k),
              wind_direction |-> Some("NW"), windChill |-> Some(0 - k)]]

ForecastProps ==
    {[hourlyForecasts |-> None, forecasts |-> Some(f)] : f \in Feeds}
        \cup {[hourlyForecasts |-> Some(HourlyForecasts(n)), forecasts |-> None] :
                 n \in 0..MaxHours}
        \cup {[hourlyForecasts |-> None, forecasts |-> None]}

----------------------------------------------------------------------------
(* The parser called on any of its inputs *)

IconFunctions == {"get_weather_icon", "get_emoji", "models_get_emoji"}

\* the sunrise and sunset texts of riseSet: every hour of the day and one
\* before and after, with and without minutes, and texts with no hour
Timestamps ==
    [hour : {None} \cup {Some(h) : h \in (0 - 1)..24},
     minute : {None, Some("00"), Some("37"), Some("59")}]

Calls ==
    [fn : {"parse_api_response"}, arg : JsonTexts]
        \cup [fn : IconFunctions, arg : Conditions]
        \cup [fn : {"parse_forecasts"}, arg : ForecastProps]
        \cup [fn : {"format_utc_to_local_time"}, arg : Timestamps]

InitParse ==
    /\ InitApp
    /\ InitDisplay
    /\ call \in Calls
    /\ ret = None

NextParse ==
    \/ ParseApiResponse
    \/ GetWeatherIcon
    \/ GetEmoji
    \/ ModelsGetEmoji
    \/ ParseForecasts
    \/ FormatUtcToLocalTime

SpecParse == InitParse /\ [][NextParse]_vars

----------------------------------------------------------------------------
(* The BinComponent at any hour *)

\* Local without a change of the clocks, and Toronto around the Sunday
\* 02:00 of the first week when the clocks go back and when they go forward
Zones ==
    {[before |-> 0, after |-> 0, change_at |-> 0],
     [before |-> 0 - 4, after |-> 0 - 5, change_at |-> 6 * 24 + 6],
     [before |-> 0 - 5, after |-> 0 - 4, change_at |-> 6 * 24 + 7]}

Clock == 0..MaxClock

BinClock == (0 - 24 * MaxBinDays)..(24 * MaxBinDays)

BinCalls ==
    [fn : {"get_alternate_bin"}, arg : BinClock]
        \cup [fn : {"BinComponent_view"},
              arg : [tz : Zones, self : [current_time : Clock]]]

\* get_alternate_bin() returns
GetAlternateBin ==
    /\ Calling("get_alternate_bin")
    /\ Return(get_alternate_bin(call.arg))
    /\ UNCHANGED <<wvars, pvars, dvars>>

\* BinComponent::view returns
BinComponentView ==
    /\ Calling("BinComponent_view")
    /\ Return(BinComponent_view(call.arg.tz, call.arg.self))
    /\ UNCHANGED <<wvars, pvars, dvars>>

InitBin ==
    /\ InitApp
    /\ InitDisplay
    /\ call \in BinCalls
    /\ ret = None

NextBin ==
    \/ GetAlternateBin
    \/ BinComponentView

SpecBin == InitBin /\ [][NextBin]_vars

----------------------------------------------------------------------------
(* Claims about fetch_with_retry (specification SpecWeather) *)

Done(i) == inv[i].pc = "done"

Returned(i) == inv[i].result[1]

TimedOut == ErrorMsg("Request timed out after seconds", FETCH_TIMEOUT_SECS)

\* C1: an invocation of fetch_with_retry makes at most MAX_ATTEMPTS = 3 calls
\* of fetch_weather_data; once 3 attempts have failed it has returned the
\* aggregate Err "Failed after 3 attempts. <last error>" and no attempt of it
\* is in flight or will be issued.
C1_AtMostMaxAttempts ==
    \A i \in Invocations :
        /\ inv[i].calls <= MAX_ATTEMPTS
        /\ inv[i].failed = MAX_ATTEMPTS =>
             /\ Done(i)
             /\ inv[i].calls = MAX_ATTEMPTS
             /\ inv[i].in_flight = {}
             /\ ~Returned(i).ok
             /\ Returned(i).val = FailedAfter(inv[i].last_err[1])
             /\ Returned(i).val.code = 3

C1_Witness ==
    \E i \in Invocations :
        Done(i) /\ inv[i].failed = MAX_ATTEMPTS /\ ~Returned(i).ok /\ inv[i].calls = 3

AttemptData(i) ==
    {inv[i].parsed[1]} \cup
    {[inv[i].parsed[1] EXCEPT !.air_quality = Some([index |-> x, category |-> aqhi_category(x)])] :
        x \in {3, 7}}

C3_Step ==
    \A i \in Invocations :
        inv'[i].succeeded > inv[i].succeeded =>
            /\ inv[i].succeeded = 0
            /\ inv[i].parsed # None
            /\ inv'[i].pc = "done"
            /\ inv'[i].result # None
            /\ inv'[i].result[1].ok
            /\ inv'[i].result[1].val \in AttemptData(i)
            /\ inv'[i].calls = inv[i].failed + 1
            /\ inv'[i].in_flight = {}
            /\ weather_data' = Some(inv'[i].result[1].val)

C3_Stable ==
    \A i \in Invocations : inv[i].pc = "done" => inv'[i] = inv[i]

\* C3: when attempt k is the first to succeed, fetch_with_retry returns Ok
\* with the data parsed by that very attempt, whatever the k-1 failures
\* before it were, and it issues no fetch afterwards: the invocation is over
\* with k calls made and nothing in flight, and stays so.
C3_FirstSuccessReturned == [][C3_Step /\ C3_Stable]_vars

C3_Witness ==
    \E i \in Invocations :
        /\ Done(i) /\ Returned(i).ok
        /\ inv[i].failed = 2 /\ inv[i].calls = 3
        /\ inv[i].last_err = Some(TimedOut)
        /\ Returned(i).val.id = 2

----------------------------------------------------------------------------
(* Claims about the WeatherProvider (specification SpecProvider) *)

\* the data task j dispatched
Dispatched(j) == pinv[j].result[1]

\* task j came back with data of the API (it did not fail all its attempts)
Loaded(j) == pinv[j].pc = "done" /\ pinv[j].failed < MAX_RETRIES

\* the positions in the order of dispatch of tasks that came back with data
LoadedAt == {k \in 1..Len(dispatched) : Loaded(dispatched[k])}

\* the last task that dispatched
LastDispatcher == dispatched[Len(dispatched)]

\* C4: once a fetch has succeeded and dispatched its data, an hourly refresh
\* that dispatches later with all its attempts failed leaves WeatherCtx.weather
\* equal to the data loaded last before it.
C4_FailedRefreshKeepsData ==
    (/\ Len(dispatched) > 1
     /\ LastDispatcher > 1
     /\ pinv[LastDispatcher].failed = MAX_RETRIES
     /\ LoadedAt # {})
    => \E k \in LoadedAt :
          /\ \A m \in LoadedAt : m <= k
          /\ ctx.weather = Dispatched(dispatched[k])

\* C6: two tasks of the provider run at the same time, and whenever tasks
\* have dispatched, WeatherCtx.weather is the data of the one that dispatched
\* last, were it spawned before the others.
C6_LastDispatchWins ==
    /\ Len(dispatched) = 0 => (~ctx.is_loaded /\ ctx.weather = DefaultWeatherData)
    /\ Len(dispatched) > 0 => (ctx.is_loaded /\ ctx.weather = Dispatched(LastDispatcher))
    /\ \A k \in 1..Len(dispatched) : pinv[dispatched[k]].pc = "done"

\* the mount fetch, spawned first, dispatched after the interval fetch and
\* replaced the newer data by its own
C6_Witness ==
    /\ dispatched = <<2, 1>>
    /\ Loaded(1) /\ Loaded(2)
    /\ Dispatched(1) # Dispatched(2)
    /\ ctx.weather = Dispatched(1)

----------------------------------------------------------------------------
(* Claims about attempts, timeout, backoff and telemetry (SpecWeather) *)

\* at most one fetch_weather_data call of a task is alive, the current one
C5_OneInFlight ==
    \A i \in Invocations :
        /\ Cardinality(inv[i].in_flight) <= 1
        /\ inv[i].in_flight \subseteq {inv[i].attempts}
        /\ inv[i].pc # "fetching" => inv[i].in_flight = {}

\* an attempt is issued only when the one before it has ended, the fetch of
\* a timed-out attempt included, and the backoff timer armed after it fires
C5_IssueStep ==
    \A i \in Invocations :
        inv'[i].calls > inv[i].calls =>
            /\ inv'[i].calls = inv[i].calls + 1
            /\ inv[i].in_flight = {}
            /\ inv[i].calls = inv[i].failed
            /\ inv[i].calls > 0 => (inv[i].pc = "backoff" /\ inv[i].delay_ms > 0)
            /\ inv'[i].in_flight = {inv'[i].calls}

\* C5: the attempts of one invocation of fetch_with_retry are strictly
\* sequential: at most one fetch_weather_data call of it is in flight at any
\* moment, and attempt k+1 is issued only after attempt k has ended (by a
\* result, or by the timeout, which drops the fetch) and its backoff elapsed.
C5_Sequential == []C5_OneInFlight /\ [][C5_IssueStep]_vars

C5_Witness ==
    \E i \in Invocations :
        /\ inv[i].pc = "fetching" /\ inv[i].attempts = 2
        /\ inv[i].in_flight = {2}
        /\ inv[i].last_err = Some(TimedOut)

\* the timer of an attempt lives no longer than the attempt
C7_TimerOfAttempt ==
    \A i \in Invocations :
        /\ inv[i].timer \subseteq {inv[i].attempts}
        /\ inv[i].pc # "fetching" => inv[i].timer = {}

\* the step in which an attempt of task i ends
AttemptEnded(i) ==
    inv'[i].failed + inv'[i].succeeded > inv[i].failed + inv[i].succeeded

C7_TimeoutStep ==
    \A i \in Invocations :
        (AttemptEnded(i) /\ inv'[i].last_err = Some(TimedOut) /\ inv'[i].failed > inv[i].failed) =>
            /\ inv[i].attempts < MAX_ATTEMPTS =>
                 (inv'[i].pc = "backoff" /\ inv'[i].result = None /\ loading' = loading)
            /\ inv[i].attempts = MAX_ATTEMPTS =>
                 (inv'[i].pc = "done" /\ inv'[i].result = Some(Err(FailedAfter(TimedOut))))

C7_FetchFirstStep ==
    \A i \in Invocations :
        (AttemptEnded(i) /\ inv'[i].succeeded > inv[i].succeeded) =>
            (inv'[i].result[1].ok /\ inv'[i].timer = {} /\ inv'[i].last_err = inv[i].last_err)

\* C7: when the 10 s timer fires before fetch_and_parse is done the attempt
\* ends with Err "Request timed out after 10 seconds", which fetch_with_retry
\* treats as any failed attempt (backoff and retry while attempts < 3, the
\* aggregate Err at the 3rd); when the fetch completes first its result is
\* returned and the timer is gone with the attempt.
C7_TimeoutIsOneFailedAttempt ==
    []C7_TimerOfAttempt /\ [][C7_TimeoutStep /\ C7_FetchFirstStep]_vars

C7_Witness ==
    \E i \in Invocations :
        /\ inv[i].pc = "backoff" /\ inv[i].attempts = 1
        /\ inv[i].last_err = Some(TimedOut)
        /\ inv[i].last_err[1].code = 10

FailureKinds ==
    {"Network error", "HTTP", "Failed to read response", "JSON parse error",
     "No features array in response", "No properties in feature",
     "No currentConditions in response", "Request timed out after seconds"}

C9_FailureStep ==
    \A i \in Invocations :
        inv'[i].failed > inv[i].failed =>
            /\ inv'[i].last_err # None
            /\ inv'[i].last_err[1].kind \in FailureKinds
            /\ inv[i].attempts < MAX_ATTEMPTS =>
                 /\ inv'[i].pc = "backoff"
                 /\ inv'[i].delay_ms = pow(2, inv[i].attempts) * 1000
                 /\ inv'[i].result = None
                 /\ UNCHANGED <<weather_data, loading, error, retry_count>>
            /\ inv[i].attempts = MAX_ATTEMPTS =>
                 /\ inv'[i].pc = "done"
                 /\ inv'[i].result = Some(Err(FailedAfter(inv'[i].last_err[1])))
                 /\ error' = Some(FailedAfter(inv'[i].last_err[1]))
                 /\ ~loading'

\* C9: every failure of an attempt (transport error, non-2xx status, body
\* read error, malformed JSON or missing envelope, timeout) is an Err value
\* that fetch_with_retry handles in the same way whatever its kind: backoff
\* and retry while attempts < 3, the aggregate Err only at the 3rd attempt.
C9_FailuresAreValues == [][C9_FailureStep]_vars

C9_Witness ==
    \E i \in Invocations :
        /\ inv[i].pc = "backoff" /\ inv[i].attempts = 2
        /\ inv[i].last_err = Some(ErrorMsg("JSON parse error", 0))

C10_InFlight ==
    \A i \in Invocations :
        inv[i].pc \in {"fetching", "backoff"} =>
            (retry_count = inv[i].attempts /\ retry_count \in 1..MAX_ATTEMPTS)

C10_IssueStep ==
    \A i \in Invocations :
        inv'[i].calls > inv[i].calls =>
            /\ retry_count' = inv'[i].calls
            /\ inv[i].calls > 0 => retry_count' = retry_count + 1
            /\ inv[i].calls = 0 => retry_count' = 1

\* C10: retry_count is set to k in the step that issues the k-th attempt, so
\* while an attempt is in flight (and during the backoff after it) it equals
\* the number of that attempt; it grows by exactly 1 per attempt and lies in
\* 1..3 during an invocation.
C10_AttemptTelemetry == []C10_InFlight /\ [][C10_IssueStep]_vars

C10_Witness ==
    \E i \in Invocations :
        inv[i].pc = "fetching" /\ inv[i].attempts = 3 /\ retry_count = 3 /\ loading

----------------------------------------------------------------------------
(* Claims about the view, the app and the AQHI request *)

\* the fetch cycle whose task ran last
Latest(i) ==
    /\ inv[i].pc # "unspawned"
    /\ i = MaxInvocations \/ inv[i + 1].pc = "unspawned"

\* C11: during a fetch cycle of the Weather component, from its start until
\* it ends, loading = true and the loading panel is rendered; a cycle that has
\* ended with its retries exhausted leaves loading = false and error =
\* Some(message) with the error panel (and its retry button) rendered; a cycle
\* that has ended in success leaves loading = false, error = None,
\* weather_data = Some(data) and retry_count = 0 with the data rendered.
C11_ViewStates ==
    \A i \in Invocations :
        Latest(i) =>
            /\ inv[i].pc \in {"fetching", "backoff"} =>
                   /\ loading
                   /\ view(Cells) = "loading"
            /\ Done(i) /\ ~Returned(i).ok =>
                   /\ ~loading
                   /\ error = Some(Returned(i).val)
                   /\ inv[i].failed = MAX_ATTEMPTS
                   /\ view(Cells) = "error"
            /\ Done(i) /\ Returned(i).ok =>
                   /\ ~loading
                   /\ error = None
                   /\ weather_data = Some(Returned(i).val)
                   /\ retry_count = 0
                   /\ view(Cells) = "data"

\* a manual retry after an exhausted cycle has ended in success
C11_Witness ==
    /\ Done(1) /\ ~Returned(1).ok
    /\ Done(2) /\ Returned(2).ok
    /\ view(Cells) = "data"

\* task j of the provider is one spawned by the hourly use_interval
HourlyCycle(j) == j > 1

\* the step ends cycle j of the provider in success: data of the API is
\* dispatched
CycleSucceeds(j) ==
    /\ pinv[j].pc = "fetching"
    /\ pinv'[j].pc = "done"
    /\ pinv'[j].failed < MAX_RETRIES

\* C12: in the app of main.rs (WeatherProvider around the Weather component)
\* every successful fetch cycle started by the hourly timer replaces the
\* WeatherData the Weather view renders: at the step that ends such a cycle
\* the rendered weather_data is the data the cycle fetched.
C12_HourlyCycleReplacesRenderedData ==
    [][\A j \in ProviderInvocations :
          HourlyCycle(j) /\ CycleSucceeds(j) =>
              /\ weather_data' # None
              /\ weather_data'[1].id = pinv'[j].result[1].id]_vars

\* the attempt of task i in progress has fetched and parsed the weather
\* payload and is awaiting the AQHI request
AwaitingAqhi(i) ==
    /\ inv[i].pc = "fetching"
    /\ inv[i].stage \in {"aqhi_send", "aqhi_text"}
    /\ inv[i].parsed # None

\* C13: the AQHI request is best-effort: once the primary weather fetch and
\* parse of an attempt have succeeded, fetch_weather_data returns Ok whatever
\* becomes of the AQHI request (an error, or a response that is slow or never
\* arrives), with air_quality Some exactly when the AQHI request succeeded.
C13_AqhiBestEffort ==
    [][\A i \in Invocations :
          AwaitingAqhi(i) /\ AttemptEnded(i) =>
              /\ inv'[i].succeeded = inv[i].succeeded + 1
              /\ inv'[i].result # None
              /\ inv'[i].result[1].ok
              /\ inv'[i].result[1].val \in AttemptData(i)]_vars

----------------------------------------------------------------------------
(* Claims about the parser (specification SpecParse) *)

\* parse_api_response has returned r for the text
Parsed(text, r) ==
    /\ call.fn = "parse_api_response"
    /\ call.arg = text
    /\ ret = Some(r)

\* the texts that are not JSON, have no features array (missing, not an
\* array, or empty) or whose first feature has no properties
NoEnvelope(text) ==
    \/ ~text.json
    \/ text.features # "array"
    \/ ~text.properties

\* C14: parse_api_response returns Err, never Ok with an empty WeatherData,
\* for every text that is not valid JSON, that has no top-level features
\* array (missing, not an array, or empty), or whose first feature has no
\* properties.
C14_NoEnvelopeIsErr ==
    call.fn = "parse_api_response" /\ ret # None /\ NoEnvelope(call.arg) =>
        /\ ~ret[1].ok
        /\ ret[1].val.kind \in {"JSON parse error", "No features array in response",
                                "No properties in feature"}

\* a JSON text whose features array is empty has been refused
C14_Witness ==
    \E text \in JsonTexts :
        /\ text.json /\ text.features = "empty"
        /\ Parsed(text, Err(ErrorMsg("No properties in feature", 0)))

\* C15: for every JSON text in which features[0].properties is present,
\* parse_api_response returns Ok whichever other path segments are missing
\* (a whole currentConditions, forecastGroup, hourlyForecastGroup, riseSet or
\* warnings object included): only the absence of features or of the first
\* feature's properties aborts the parse.
C15_PropertiesPresentIsOk ==
    call.fn = "parse_api_response" /\ ret # None /\ ~NoEnvelope(call.arg) =>
        ret[1].ok

\* one of the two icon functions of api.rs has returned
ApiIconReturned ==
    /\ call.fn \in {"get_weather_icon", "get_emoji"}
    /\ ret # None

\* C16: get_weather_icon and DailyForecast::get_emoji return the icon of the
\* first rule that matches in the order thunder/storm, snow/flurries,
\* rain/shower/drizzle, fog/mist, cloud with (sun or clear), cloud alone, sun
\* or clear, else variable; so a string with "cloud" and "sun" yields the
\* partly-cloudy icon and a string with "thunder" or "storm" the stormy icon.
C16_IconPrecedence ==
    ApiIconReturned =>
        LET has(keyword) == contains(call.arg, keyword)
        IN ret[1].glyph =
              IF has("thunder") \/ has("storm") THEN "thunder cloud and rain"
              ELSE IF has("snow") \/ has("flurr") THEN "snowflake"
              ELSE IF has("rain") \/ has("shower") \/ has("drizzle") THEN "cloud with rain"
              ELSE IF has("fog") \/ has("mist") THEN "fog"
              ELSE IF has("cloud") /\ (has("sun") \/ has("clear")) THEN "sun behind cloud"
              ELSE IF has("cloud") THEN "cloud"
              ELSE IF has("sun") \/ has("clear") THEN "sun"
              ELSE "sun behind small cloud"

\* C17: for every condition string, get_weather_icon (current conditions) and
\* DailyForecast::get_emoji of api.rs and of models.rs (hourly and daily
\* forecasts) return the same icon: whichever of them has returned, the other
\* two return what it returned.
C17_IconsUniform ==
    call.fn \in IconFunctions /\ ret # None =>
        /\ get_weather_icon(call.arg) = ret[1]
        /\ get_emoji(call.arg) = ret[1]
        /\ models_get_emoji(call.arg) = ret[1]

----------------------------------------------------------------------------
(* Claims about parse_forecasts (specification SpecParse) *)

\* parse_forecasts has returned for props with a forecasts array
ForecastsParsed ==
    /\ call.fn = "parse_forecasts"
    /\ call.arg.forecasts # None
    /\ ret # None

\* the forecasts array parse_forecasts was called with
Feed == call.arg.forecasts[1]

\* the daily list it returned
Daily == ret[1].daily

\* the periods of the feed folded into the day called name
Folded(name) == {k \in DOMAIN Feed : day_name(Feed[k].period) = name}

\* the entries of the daily list for the day called name
Records(name) == {i \in DOMAIN Daily : Daily[i].day_name = name}

\* the day names of the feed
DayNames == {day_name(Feed[k].period) : k \in DOMAIN Feed}

\* C18: for a feed with a daytime period "X" with temperature h or a night
\* period "X night" with temperature l, exactly one DailyForecast with
\* day_name X is emitted; its high is Some(h) from the day period, its low
\* Some(l) from the night period, its summary the day period's; a temperature
\* whose period is missing is None.
C18_DayNightFolded ==
    ForecastsParsed =>
        \A k \in DOMAIN Feed :
            LET X == IF is_night(Feed[k].period)
                     THEN SubSeq(Feed[k].period, 1, Len(Feed[k].period) - 1)
                     ELSE Feed[k].period
                days == {d \in DOMAIN Feed : Feed[d].period = X}
                nights == {n \in DOMAIN Feed : Feed[n].period = Append(X, "night")}
            IN days \cup nights # {} =>
                  /\ Cardinality(Records(X)) = 1
                  /\ \A i \in Records(X) :
                        /\ \A d \in days : /\ Daily[i].high = Feed[d].temp
                                           /\ Daily[i].summary = Feed[d].summary
                        /\ \A n \in nights : Daily[i].low = Feed[n].temp
                        /\ days = {} => Daily[i].high = None
                        /\ nights = {} => Daily[i].low = None

\* the POP values extracted from the periods folded into the day called name
Pops(name) == {extract_pop(Feed[k].text_summary) : k \in Folded(name)}

\* C19: for every day record built by parse_forecasts, pop is the maximum of
\* the POP values extracted from the periods folded into that day, in
\* whatever order they appear, and None exactly when none of them has a POP
\* greater than 0.
C19_PopIsMax ==
    ForecastsParsed =>
        \A i \in DOMAIN Daily :
            LET pops == Pops(Daily[i].day_name)
            IN IF \A p \in pops : p = 0
               THEN Daily[i].pop = None
               ELSE /\ Daily[i].pop # None
                    /\ Daily[i].pop[1] \in pops
                    /\ \A p \in pops : p <= Daily[i].pop[1]

\* the day has the greater POP, 70, and the night after it the smaller, 30;
\* another day has none
C19_Witness ==
    /\ ForecastsParsed
    /\ Len(Feed) = 3
    /\ Feed[1].period = <<"Monday">> /\ extract_pop(Feed[1].text_summary) = 70
    /\ Feed[2].period = <<"Monday", "night">> /\ extract_pop(Feed[2].text_summary) = 30
    /\ Feed[3].period = <<"Tuesday">> /\ extract_pop(Feed[3].text_summary) = 0
    /\ Len(Daily) = 2
    /\ Daily[1].pop = Some(70)
    /\ Daily[2].pop = None

\* the position in the feed at which the day called name first appears
FirstAppearance(name) == CHOOSE k \in Folded(name) : \A j \in Folded(name) : k <= j

\* how many distinct day names the feed has before position k
DistinctBefore(k) == Cardinality({day_name(Feed[j].period) : j \in 1..(k - 1)})

\* C20: the daily list returned by parse_forecasts has at most 7 entries with
\* distinct day names, in feed order: entry i is the i-th distinct day name by
\* first appearance in the feed, and the day names beyond the 7th are dropped.
C20_FirstSevenDaysInFeedOrder ==
    ForecastsParsed =>
        /\ Len(Daily) <= 7
        /\ \A i, j \in DOMAIN Daily : Daily[i].day_name = Daily[j].day_name => i = j
        /\ \A i \in DOMAIN Daily :
              /\ Daily[i].day_name \in DayNames
              /\ DistinctBefore(FirstAppearance(Daily[i].day_name)) = i - 1
        /\ \A name \in DayNames :
              DistinctBefore(FirstAppearance(name)) < 7 => Records(name) # {}

\* a feed of 8 distinct day names, the nights folded into their days: the
\* first 7 are returned in the order of the feed
C20_Witness ==
    /\ ForecastsParsed
    /\ Cardinality(DayNames) = 8
    /\ \E k \in DOMAIN Feed : Feed[k].period = <<"Monday", "night">>
    /\ Len(Daily) = 7
    /\ Daily[1].day_name = <<"Today">>
    /\ Daily[2].day_name = <<"Tonight">>
    /\ Daily[3].day_name = <<"Monday">>
    /\ Daily[7].day_name = <<"Friday">>

----------------------------------------------------------------------------
(* Claims about "tonight" and about the clock (specification SpecParse) *)

\* period k of the feed is the one named "tonight" and the period after it
\* is the daytime period of the following day
TonightBefore(k) ==
    /\ k \in DOMAIN Feed
    /\ k + 1 \in DOMAIN Feed
    /\ Feed[k].period = <<"tonight">>
    /\ ~is_night(Feed[k + 1].period)

\* C21: a forecast period named "tonight" is mapped to the day name of the
\* following day, whatever weekday that is, so that its values are folded
\* into the record of that day: the day whose daytime period comes next in
\* the feed.
C21_TonightIsTheFollowingDay ==
    ForecastsParsed =>
        \A k \in DOMAIN Feed :
            TonightBefore(k) =>
                /\ day_name(Feed[k].period) = Feed[k + 1].period
                /\ k \in Folded(Feed[k + 1].period)

----------------------------------------------------------------------------
(* Claims about proxies, the provider's retries and termination *)

\* the step ends the request of task i to the primary URL in a failure of the
\* fetch itself (a network error, a status that is not 2xx, a body that
\* cannot be read or parsed), not in a timeout
PrimaryFails(i) ==
    /\ inv[i].pc = "fetching"
    /\ inv[i].stage \in {"send", "text"}
    /\ AttemptEnded(i)
    /\ inv'[i].last_err # Some(TimedOut)

C23_ProviderRetries ==
    \A j \in ProviderInvocations :
        LET pv == pinv[j]
        IN /\ pv.calls <= MAX_RETRIES
           /\ pv.pc = "fetching" => pv.calls = pv.failed + 1 /\ pv.sleeps = pv.failed
           /\ pv.pc = "sleeping" =>
                 /\ pv.sleep_ms = 2000
                 /\ pv.failed < MAX_RETRIES
                 /\ pv.calls = pv.failed
                 /\ pv.sleeps = pv.failed
           /\ pv.pc = "done" =>
                 IF pv.failed = MAX_RETRIES
                 THEN /\ pv.result = Some(DefaultWeatherData)
                      /\ pv.calls = MAX_RETRIES
                      /\ pv.sleeps = MAX_RETRIES - 1
                 ELSE /\ pv.result[1].location # ""
                      /\ pv.calls = pv.failed + 1
                      /\ pv.sleeps = pv.failed

\* one task has failed 3 times and returned the default after 2 sleeps,
\* another has succeeded at its second attempt after 1 sleep
C23_Witness ==
    /\ pinv[1].pc = "done" /\ pinv[1].failed = 3 /\ pinv[1].sleeps = 2
    /\ pinv[1].result = Some(DefaultWeatherData)
    /\ pinv[2].pc = "done" /\ pinv[2].failed = 1 /\ pinv[2].sleeps = 1
    /\ pinv[2].result[1].location = "Toronto"

----------------------------------------------------------------------------
(* Claims about the WeatherDisplay (specification SpecDisplay) *)

\* the step is update called with the message m
Handling(m) ==
    /\ mailbox # <<>>
    /\ Head(mailbox) = m
    /\ mailbox' = Tail(mailbox)

C24_LoadedStep ==
    \A result \in ClientResults :
        Handling(WeatherLoaded(result)) =>
            IF result.ok
            THEN /\ display'.weather = Some(result.val)
                 /\ display'.error = None
                 /\ ~display'.loading
                 /\ emitted' = IF props.on_weather_loaded
                               THEN Append(emitted, result.val)
                               ELSE emitted
            ELSE /\ display'.weather = display.weather
                 /\ display'.error = Some(result.val)
                 /\ ~display'.loading
                 /\ emitted' = emitted

C24_WeatherStays ==
    display.weather # None => display'.weather # None

C24_WeatherRendered ==
    display.weather # None => WeatherDisplay_view(display) = "weather"

\* C24: in the WeatherDisplay, WeatherLoaded(Err) sets error and clears
\* loading and leaves weather as it is, so weather, once Some, is never None
\* again and the view renders it whatever error and loading are;
\* WeatherLoaded(Ok(d)) sets weather = Some(d), clears error and emits d to
\* on_weather_loaded when the parent has set one.
C24_FailedLoadKeepsWeather ==
    /\ []C24_WeatherRendered
    /\ [][C24_LoadedStep /\ C24_WeatherStays]_vars

\* data was loaded and emitted, a later load has failed, and the data is
\* still what is rendered
C24_Witness ==
    /\ display.weather # None
    /\ display.error # None
    /\ ~display.loading
    /\ emitted = <<display.weather[1]>>
    /\ WeatherDisplay_view(display) = "weather"

\* C25: every invocation of fetch_with_retry terminates, even when the
\* network answers no request: each attempt ends when its 10 s timer fires,
\* each backoff timer fires, and after at most 3 attempts the invocation has
\* returned Ok or Err and the Weather component has loading = false.
C25_Terminates ==
    \A i \in Invocations :
        inv[i].pc \in {"fetching", "backoff"}
            ~> (/\ Done(i)
                /\ inv[i].result # None
                /\ inv[i].calls <= MAX_ATTEMPTS
                /\ ~loading)

\* an invocation has returned after its third attempt, too, had timed out
C25_Witness ==
    /\ Done(1)
    /\ inv[1].failed = MAX_ATTEMPTS
    /\ inv[1].last_err = Some(TimedOut)
    /\ ~Returned(1).ok
    /\ ~loading

\* C27: WeatherCtx.is_loaded is true only if some fetch has succeeded: it
\* is false at the start and while every fetch attempt so far has failed
\* (is_loaded implies that the data of a successful fetch was dispatched).
\* That it is never false again once true holds trivially of reduce and is
\* not the part in question.
C27_LoadedOnlyAfterSuccess ==
    ctx.is_loaded => \E k \in 1..Len(dispatched) : Loaded(dispatched[k])

----------------------------------------------------------------------------
(* Claims about the BinComponent (specification SpecBin) *)

ViewReturned == call.fn = "BinComponent_view" /\ ret # None

Today == num_days_from_monday(call.arg.tz, call.arg.self.current_time)

\* C28: for every weekday of current_time, days_until_pickup is
\* (3 + 7 - days_from_monday) % 7, lies in 0..6 and is 0 exactly when today is
\* Thursday; current_time + days_until_pickup days falls on a Thursday, the
\* day whose forecast is looked up; and "BIN DAY TODAY!!" is shown exactly
\* when days_until_pickup = 0.
C28_CountdownToThursday ==
    ViewReturned =>
        /\ ret[1].days_until_pickup = (3 + 7 - Today) % 7
        /\ ret[1].days_until_pickup \in 0..6
        /\ ret[1].days_until_pickup = 0 <=> Today = Thu
        /\ ret[1].day_name = "Thursday"
        /\ ret[1].text = <<"BIN DAY TODAY!!">> <=> ret[1].days_until_pickup = 0

BinReturned == call.fn = "get_alternate_bin" /\ ret # None

\* the whole number of days between the reference day and today
DaysSince(today) == num_days(today - known_yellow_bin_day)

\* C29: get_alternate_bin follows a 2-week cycle in which the bin set
\* alternates every week: for every whole number of days d between the
\* reference day and today, negative d included, the result for d is the
\* result for d + 14 and is not the result for d + 7, and it is Yellow on
\* the reference day.
C29_TwoWeekCycle ==
    BinReturned =>
        /\ \A later \in BinClock :
              /\ DaysSince(later) = DaysSince(call.arg) + 14
                    => get_alternate_bin(later) = ret[1]
              /\ DaysSince(later) = DaysSince(call.arg) + 7
                    => get_alternate_bin(later) # ret[1]
        /\ DaysSince(call.arg) = 0 => ret[1] = "Yellow"

----------------------------------------------------------------------------
(* Claims about the clock of sunrise and sunset (specification SpecParse) *)

TimeFormatted == call.fn = "format_utc_to_local_time" /\ ret # None

\* the hour HH of "...THH:MM..." is one of 0..23
HourOfDay == call.arg.hour # None /\ call.arg.hour[1] \in 0..23

\* C30: format_utc_to_local_time turns a UTC timestamp "...THH:MM..." into
\* Toronto time on a 12-hour clock: for every HH in 0..23 the local hour is
\* (HH + 19) mod 24, the hour shown is in 1..12 (12 for local 0 and local 12),
\* the suffix is AM exactly when the local hour is below 12, and the minutes
\* are those of the input; a text with no parsable hour is returned as it is.
C30_LocalTwelveHourClock ==
    TimeFormatted =>
        /\ HourOfDay =>
              LET local == (call.arg.hour[1] + 19) % 24
              IN /\ ret[1].display_hour \in 1..12
                 /\ ret[1].display_hour % 12 = local % 12
                 /\ ret[1].am_pm = "AM" <=> local < 12
                 /\ ret[1].am_pm \in {"AM", "PM"}
                 /\ call.arg.minute # None => ret[1].minute = call.arg.minute[1]
        /\ call.arg.hour = None => ret[1] = call.arg

\* 17:37 UTC is shown as 12:37 PM
C30_Witness ==
    /\ TimeFormatted
    /\ call.arg = [hour |-> Some(17), minute |-> Some("37")]
    /\ ret[1] = [display_hour |-> 12, minute |-> "37", am_pm |-> "PM"]


====
